---- MODULE Spec2Model ----
(***************************************************************************)
(* Session / concurrency orchestrator of mep (src/mep/src/main.rs).        *)
(*                                                                         *)
(* The dispatcher (main thread) is modelled as a sequential process whose  *)
(* position is pc; one action per channel poll of the main loop, one for   *)
(* the blocking recv inside compile_run_block_until_valid, one for the     *)
(* start-up listing and one for the start-up selection loop.  The MIDI     *)
(* callback, the stdin thread, the watcher thread and the file system are  *)
(* the environment: they only append to their channel.                     *)
(*                                                                         *)
(* The Koto runtime, the MIDI transport and the terminal are external:     *)
(* a script is represented by what it does when compiled, run and called.  *)
(* Terminal writes are taken to succeed.                                   *)
(***************************************************************************)
EXTENDS Integers, Sequences, FiniteSets, TLC

(***************************************************************************)
(* Bounds of the model.                                                    *)
(***************************************************************************)
MaxEvents == 3       \* events produced by the environment: lines typed, MIDI
                     \* messages received, changes of the scripts folder
MaxDepth == 2        \* nested frames of compile_run_block_until_valid

(***************************************************************************)
(* Program constants.                                                      *)
(***************************************************************************)
SendErrCap == 256    \* sync_channel(256) of midi.send errors

(***************************************************************************)
(* The scripts folder: paths are 1..3, a file holds a script or is absent. *)
(***************************************************************************)
Files == {1, 2, 3}
NoFile == "absent"
NoPath == 0

\* Script texts, named by their behaviour in the runtime:
\*   bad      does not compile
\*   rt       compiles; its top level raises before midi.listen is assigned
\*   ok       assigns midi.listen; the listener sends a valid byte list
\*   lfail    assigns midi.listen; the listener raises
\*   badsend  assigns midi.listen; the listener calls midi.send with a list
\*            holding 256 after a valid prefix and with a non-list argument
\*   storm    assigns midi.listen; the listener calls midi.send with a
\*            non-list argument SendErrCap + 1 times
\*   once     its top level raises if midi.listen is already its own
\*            listener, and assigns midi.listen otherwise
\*   plain    compiles and runs; never assigns midi.listen
\*   quiet    assigns midi.listen; the listener returns without sending
Contents == {"bad", "rt", "ok", "lfail", "badsend", "storm", "once", "plain",
             "quiet"}

CompileOk(src) == src # "bad"
RunOk(src) == src \notin {"bad", "rt"}
DefinesListener(src) == src \in {"ok", "lfail", "badsend", "storm", "once", "quiet"}

\* the top level of src, run in a runtime whose prelude holds the listener l
TopLevelOk(src, l) == RunOk(src) /\ ~(src = "once" /\ l = "once")
ListenerOk(l) == l # "lfail"

\* Koto values passed to midi.send
I64(n) == [t |-> "i64", v |-> n, data |-> <<>>]
F64(n) == [t |-> "f64", v |-> n, data |-> <<>>]
Str == [t |-> "str", v |-> 0, data |-> <<>>]
List(vs) == [t |-> "list", v |-> 0, data |-> vs]

\* The argument lists of the midi.send calls the listener l makes for message m
ListenerCalls(l, m) ==
    CASE l = "ok" -> << <<List(<<I64(144), I64(60 + m), I64(127)>>)>> >>
      [] l = "badsend" -> << <<List(<<I64(144), I64(256), Str>>)>>, <<I64(144)>> >>
      [] l = "storm" -> [i \in 1..(SendErrCap + 1) |-> <<Str>>]
      [] OTHER -> <<>>

(***************************************************************************)
(* User input lines: sequences of characters, as read_line returns them.   *)
(***************************************************************************)
Lines == { <<"0", "\n">>, <<" ", "1", "\n">>, <<"7", "\n">>,
           <<"x", "\n">>, <<"-", "1", "\n">>, <<"\n">> }

IsSpace(c) == c \in {" ", "\n", "\t", "\r"}

RECURSIVE TrimStart(_)
TrimStart(s) == IF s # <<>> /\ IsSpace(Head(s)) THEN TrimStart(Tail(s)) ELSE s

RECURSIVE TrimEnd(_)
TrimEnd(s) ==
    IF s # <<>> /\ IsSpace(s[Len(s)]) THEN TrimEnd(SubSeq(s, 1, Len(s) - 1)) ELSE s

Trim(s) == TrimEnd(TrimStart(s))

DigitChars == {"0", "1", "2", "3", "4", "5", "6", "7", "8", "9"}
DigitVal(c) ==
    CASE c = "0" -> 0 [] c = "1" -> 1 [] c = "2" -> 2 [] c = "3" -> 3
      [] c = "4" -> 4 [] c = "5" -> 5 [] c = "6" -> 6 [] c = "7" -> 7
      [] c = "8" -> 8 [] c = "9" -> 9

NotANumber == -1

RECURSIVE DigitsValue(_, _)
DigitsValue(s, acc) ==
    IF s = <<>> THEN acc ELSE DigitsValue(Tail(s), 10 * acc + DigitVal(Head(s)))

\* (mutant) a parse that accepts a sign and drops it, as a signed parse
\* followed by a cast would
ParseUsizeSigned(s) ==
    LET body == IF s # <<>> /\ Head(s) \in {"+", "-"} THEN Tail(s) ELSE s
    IN  IF body # <<>> /\ \A i \in 1..Len(body) : body[i] \in DigitChars
        THEN DigitsValue(body, 0)
        ELSE NotANumber

\* str::parse::<usize>: an optional "+", then one or more decimal digits
ParseUsize(s) ==
    LET body == IF s # <<>> /\ Head(s) = "+" THEN Tail(s) ELSE s
    IN  IF body # <<>> /\ \A i \in 1..Len(body) : body[i] \in DigitChars
        THEN DigitsValue(body, 0)
        ELSE NotANumber

(***************************************************************************)
(* State.                                                                  *)
(***************************************************************************)
VARIABLES
    disk,                  \* the scripts folder: path -> script text or NoFile
    from_watcher,          \* channel watcher thread -> main
    from_midi_in,          \* channel MIDI callback -> main
    midi_send_errors,      \* sync_channel midi.send closure -> main
    stdin_lines,           \* lines typed and not yet taken
    context,               \* struct Context
    chosen_index_checked,  \* main's local of that name (start-up choice)
    max_idx,               \* main's local: available_scripts.len() - 1 at start
    runtime,               \* Koto: last compiled chunk and prelude midi.listen
    pc,                    \* position of the main thread
    frames,                \* blocked frames of compile_run_block_until_valid
    ret,                   \* the caller the outermost frame returns to
    exit_code,             \* process status once pc = "exited"
    log,                   \* what the last step of the main thread did
    last_failed,           \* history: the MIDI message whose listener call failed
                           \* and that has not been passed to a listener since
    events,                \* events produced by the environment so far
    midi_count,            \* MIDI messages received so far
    raw_event,             \* history: the event the watcher thread received last
    shared                 \* the shared-lock revision (src/src/main.rs): its two
                           \* mutexes, its watcher thread and what got through

vars == <<disk, from_watcher, from_midi_in, midi_send_errors, stdin_lines, context,
          chosen_index_checked, max_idx, runtime, pc, frames, ret, exit_code, log,
          last_failed, events, midi_count, raw_event, shared>>

budget_vars == <<events, midi_count, raw_event, shared>>

main_vars == <<midi_send_errors, context, chosen_index_checked, max_idx, runtime, pc,
               frames, ret, exit_code, log, last_failed>>

(***************************************************************************)
(* What a step of the main thread did, in order: runtime calls (compile,   *)
(* run, call), midi.send calls and transport sends, terminal calls, exit.  *)
(***************************************************************************)
Ev(op, src, n, ok) == [op |-> op, src |-> src, n |-> n, ok |-> ok, args |-> <<>>]
EvArgs(op, n, ok, args) == [op |-> op, src |-> "", n |-> n, ok |-> ok, args |-> args]

InSeq(x, s) == \E i \in 1..Len(s) : s[i] = x

\* The state the main thread works on, as one record, so that the code's
\* sequential steps compose.
Cur == [ctx |-> context, rt |-> runtime, sendq |-> midi_send_errors,
        fw |-> from_watcher, log |-> <<>>, pc |-> pc, frames |-> frames,
        ret |-> ret, code |-> exit_code]

Emit(d, e) == [d EXCEPT !.log = Append(@, e)]

\* main returns Err (status 1) or panics (status 101)
Exit(d, c) == [Emit(d, Ev("exit", "", c, FALSE)) EXCEPT !.pc = "exited", !.code = c]

ShowError(d) == Emit(d, Ev("show_error", "", d.ctx.chosen_script_path, TRUE))
Render(d) == Emit(d, Ev("render", "", d.ctx.chosen_index_checked, TRUE))
IgnoreChoice(d) == Emit(d, Ev("ignore_choice", "", 0, TRUE))

(***************************************************************************)
(* collect_available_scripts_to: the .koto files of the folder, in the     *)
(* order read_dir yields them, which is unspecified.                       *)
(***************************************************************************)
Present(d) == {f \in Files : d[f] # NoFile}

Listings(d) ==
    LET S == Present(d)
    IN  {s \in [1..Cardinality(S) -> S] : \A i, j \in 1..Cardinality(S) : s[i] = s[j] => i = j}

(***************************************************************************)
(* The midi.send closure.                                                  *)
(***************************************************************************)
IsByte(v) == v.t = "i64" /\ v.v \in 0..255

\* midi_send_error_to_main.send(..): blocks while the channel is full
EnqueueSendError(d, e) ==
    IF Len(d.sendq) >= SendErrCap
    THEN [d EXCEPT !.pc = "blocked_send"]
    ELSE Emit([d EXCEPT !.sendq = Append(@, e)], Ev("send_error", e, 0, TRUE))

MidiSend(d, args, io_ok) ==
    IF Len(args) = 1 /\ args[1].t = "list"
    THEN LET data == args[1].data
         IN  IF \E i \in 1..Len(data) : ~IsByte(data[i])
             THEN \* collect() stops at the first Err: one error, no send
                  EnqueueSendError(Emit(d, EvArgs("midi.send", 0, FALSE, args)),
                                   "wrong_argument")
             ELSE LET d1 == Emit(Emit(d, EvArgs("midi.send", 0, TRUE, args)),
                                 EvArgs("transport.send", 0, io_ok, data))
                  IN  IF io_ok THEN d1 ELSE EnqueueSendError(d1, "send_failed")
    ELSE EnqueueSendError(Emit(d, EvArgs("midi.send", 0, FALSE, args)), "wrong_argument")

\* The calls a script makes, one after the other; a blocked thread makes no
\* more.  (Evaluated by halves, which keeps the evaluation shallow.)
RECURSIVE RunCalls(_, _, _)
RunCalls(d, calls, io_ok) ==
    IF calls = <<>> \/ d.pc = "blocked_send" THEN d
    ELSE IF Len(calls) = 1 THEN MidiSend(d, calls[1], io_ok)
    ELSE LET h == Len(calls) \div 2
             d1 == RunCalls(d, SubSeq(calls, 1, h), io_ok)
         IN  RunCalls(d1, SubSeq(calls, h + 1, Len(calls)), io_ok)

(***************************************************************************)
(* call_midi_listen_with: looks midi.listen up in the prelude and calls it.*)
(* Returns the state and whether the result is Ok.                         *)
(***************************************************************************)
\* (mutant) a missing listener is passed over without an error
call_midi_listen_lenient(d, m, io_ok) ==
    LET l == d.rt.listen
    IN  IF l = "none"
        THEN [d |-> d, ok |-> TRUE]
        ELSE LET d1 == RunCalls(Emit(d, Ev("call", l, m, ListenerOk(l))),
                                ListenerCalls(l, m), io_ok)
             IN  [d |-> d1, ok |-> ListenerOk(l)]

call_midi_listen_with(d, m, io_ok) ==
    LET l == d.rt.listen
    IN  IF l = "none"
        THEN [d |-> Emit(d, Ev("lookup", l, m, FALSE)), ok |-> FALSE]
        ELSE LET d1 == RunCalls(Emit(d, Ev("call", l, m, ListenerOk(l))),
                                ListenerCalls(l, m), io_ok)
             IN  [d |-> d1, ok |-> ListenerOk(l)]

(***************************************************************************)
(* Koto: compile keeps the compiled chunk in the runtime; running a chunk  *)
(* executes the script's top level, which assigns midi.listen.             *)
(***************************************************************************)
Compiled(d, src) == Emit([d EXCEPT !.rt.chunk = src], Ev("compile", src, 0, TRUE))

RunChunk(d, src) ==
    IF TopLevelOk(src, d.rt.listen)
    THEN Emit([d EXCEPT !.rt.listen = IF DefinesListener(src) THEN src ELSE @],
              Ev("run", src, 0, TRUE))
    ELSE Emit(d, Ev("run", src, 0, FALSE))

(***************************************************************************)
(* What each caller of compile_run_block_until_valid / try_debug does next.*)
(*   init     main, initial load (? then render, runtime.run()?, loop)     *)
(*   stdin    main loop, user selection (? then render)                    *)
(*   td_midi  try_debug called after a listener error                      *)
(*   td_send  try_debug called after a midi.send error                     *)
(*   td_idle  try_debug called when stdin is empty                         *)
(***************************************************************************)
Callers == {"init", "stdin", "td_midi", "td_send", "td_idle"}

ReturnOk(d, r) ==
    LET d1 == Render([d EXCEPT !.frames = <<>>])
    IN  IF r = "init"
        THEN \* runtime.run()?: runs the last compiled chunk once more
             LET d2 == RunChunk(d1, d1.rt.chunk)
             IN  IF d2.log[Len(d2.log)].ok
                 THEN [d2 EXCEPT !.pc = "midi"]
                 ELSE Exit(d2, 1)
        ELSE [d1 EXCEPT !.pc = "midi"]

ReturnErr(d, r) ==
    LET d1 == [d EXCEPT !.frames = <<>>]
    IN  CASE r \in {"init", "stdin"} -> Exit(d1, 1)
          [] r = "td_midi" -> [d1 EXCEPT !.pc = "senderr"]
          [] r = "td_send" -> [d1 EXCEPT !.pc = "stdin"]
          [] r = "td_idle" -> [d1 EXCEPT !.pc = "midi"]

\* A frame shows the error and enters its loop around from_watcher.recv()
Block(d, kind, r) ==
    [ShowError(d) EXCEPT !.pc = "recover", !.frames = Append(@, kind), !.ret = r]

\* (mutant) a failed compile unloads the program the runtime holds
compile_run_unloading(d, r) ==
    LET src == d.ctx.chosen_script
    IN  IF CompileOk(src)
        THEN LET d1 == RunChunk(Compiled(d, src), src)
             IN  IF d1.log[Len(d1.log)].ok
                 THEN ReturnOk(d1, r)
                 ELSE Block(d1, "run", r)
        ELSE Block(Emit([d EXCEPT !.rt.listen = "none"], Ev("compile", src, 0, FALSE)),
                   "compile", r)

\* (mutant) the chunk held by the runtime is run although the compile failed
compile_run_despite_error(d, r) ==
    LET src == d.ctx.chosen_script
        d0 == IF CompileOk(src) THEN Compiled(d, src)
              ELSE Emit(d, Ev("compile", src, 0, FALSE))
        d1 == RunChunk(d0, IF CompileOk(src) THEN src ELSE "ok")
    IN  IF d1.log[Len(d1.log)].ok THEN ReturnOk(d1, r) ELSE Block(d1, "run", r)

(***************************************************************************)
(* compile_run_block_until_valid, from its entry to its return or to the   *)
(* blocking recv of the frame it enters.  A success returns Ok through     *)
(* every enclosing frame to the caller r.                                  *)
(***************************************************************************)
compile_run_block_until_valid(d, r) ==
    LET src == d.ctx.chosen_script
    IN  IF CompileOk(src)
        THEN LET d1 == RunChunk(Compiled(d, src), src)
             IN  IF d1.log[Len(d1.log)].ok
                 THEN ReturnOk(d1, r)
                 ELSE Block(d1, "run", r)
        ELSE Block(Emit(d, Ev("compile", src, 0, FALSE)), "compile", r)

\* (mutant) the frame retries with the text it holds instead of re-reading
RecoveryStepStale(d, fs) ==
    LET m == Head(d.fw)
        d0 == Emit([d EXCEPT !.fw = Tail(@)], EvArgs("recv", m.p, TRUE, <<m.t>> \o d.frames))
    IN  IF m.t # "NoticeWrite"
        THEN d0
        ELSE compile_run_block_until_valid(
                 [d0 EXCEPT !.ctx.chosen_script_path = m.p], d0.ret)

(***************************************************************************)
(* The loop of a blocked frame: one from_watcher.recv().  Anything but a   *)
(* NoticeWrite is taken and dropped.  A NoticeWrite sets the path from the *)
(* event, re-reads the file and recurses; a failed read returns Err from   *)
(* this frame: to the enclosing frame, which goes on waiting, or from the  *)
(* outermost frame to the caller.                                          *)
(***************************************************************************)
RecoveryStep(d, fs) ==
    LET m == Head(d.fw)
        d0 == Emit([d EXCEPT !.fw = Tail(@)], EvArgs("recv", m.p, TRUE, <<m.t>> \o d.frames))
    IN  IF m.t # "NoticeWrite"
        THEN d0
        ELSE LET d1 == [d0 EXCEPT !.ctx.chosen_script_path = m.p]
             IN  IF fs[m.p] = NoFile
                 THEN IF Len(d1.frames) = 1
                      THEN ReturnErr(d1, d1.ret)
                      ELSE [d1 EXCEPT !.frames = SubSeq(@, 1, Len(@) - 1)]
                 ELSE compile_run_block_until_valid(
                          [d1 EXCEPT !.ctx.chosen_script = fs[m.p]], d1.ret)

(***************************************************************************)
(* try_debug: one try_recv on the watcher channel.  lst is what the        *)
(* directory listing returns if the event asks for one.                    *)
(***************************************************************************)
NewPaths(new, old) == SelectSeq(new, LAMBDA p : ~InSeq(p, old))

\* position of path in scripts, as the loop without break leaves it
IndexOfPath(scripts, path, dflt) ==
    LET hits == {i \in 1..Len(scripts) : scripts[i] = path}
    IN  IF hits = {} THEN dflt ELSE (CHOOSE i \in hits : \A j \in hits : j <= i) - 1

\* (mutant) the fallback forgets to reset the chosen index
FallbackKeepsIndex(d, fs, lst) ==
    [d EXCEPT !.ctx.chosen_script = fs[lst[1]],
              !.ctx.chosen_script_path = lst[1]]

\* "Fall back to first script in the list"
Fallback(d, fs, lst) ==
    [d EXCEPT !.ctx.chosen_script = fs[lst[1]],
              !.ctx.chosen_script_path = lst[1],
              !.ctx.chosen_index_checked = 0]

\* "Script is renamed": the one new path becomes the chosen script
Renamed(d, fs, lst, path) ==
    [d EXCEPT !.ctx.chosen_script = fs[path],
              !.ctx.chosen_script_path = path,
              !.ctx.chosen_index_checked = IndexOfPath(lst, path, @)]

\* (mutant) the reload compiles the text the context holds
NoticeWriteBranchCached(d, r, fs, p) ==
    compile_run_block_until_valid([d EXCEPT !.ctx.chosen_script_path = p], r)

\* try_debug, NoticeWrite(path): the path of the event becomes the chosen
\* path, the file is read (? returns Err) and the load is entered
NoticeWriteBranch(d, r, fs, p) ==
    LET d1 == [d EXCEPT !.ctx.chosen_script_path = p]
    IN  IF fs[p] = NoFile
        THEN ReturnErr(d1, r)
        ELSE compile_run_block_until_valid([d1 EXCEPT !.ctx.chosen_script = fs[p]], r)

try_debug(d, r, fs, lst) ==
    IF d.fw = <<>>
    THEN ReturnErr(d, r)
    ELSE
    LET m == Head(d.fw)
        d0 == Emit([d EXCEPT !.fw = Tail(@)], Ev("try_recv", m.t, m.p, TRUE))
    IN  CASE m.t = "NoticeWrite" -> NoticeWriteBranch(d0, r, fs, m.p)
          [] m.t = "NoticeRemove" ->
               LET modified == NewPaths(lst, d0.ctx.available_scripts)
                   d1 == [d0 EXCEPT !.ctx.available_scripts = lst]
               IN  IF fs[d1.ctx.chosen_script_path] = NoFile
                   THEN IF Len(modified) = 1 /\ fs[modified[1]] # NoFile
                        THEN \* taken as a rename of the chosen script
                             compile_run_block_until_valid(
                                 Renamed(d1, fs, lst, modified[1]), r)
                        ELSE IF lst = <<>>
                             THEN \* bail!: try_debug returns Err
                                  ReturnErr(Emit(d1, Ev("bail", "empty", 0, FALSE)), r)
                             ELSE compile_run_block_until_valid(
                                      Fallback(Emit(d1, Ev("branch", "fallback", 0, TRUE)),
                                               fs, lst), r)
                   ELSE \* another script is removed: re-render, Ok
                        [Render(d1) EXCEPT !.pc = "midi"]
          [] m.t = "Create" ->
               [Render([d0 EXCEPT !.ctx.available_scripts = lst]) EXCEPT !.pc = "midi"]
          [] m.t = "Error" ->
               ReturnErr(Emit(d0, Ev("bail", "watch", m.p, FALSE)), r)

(***************************************************************************)
(* The main thread.                                                        *)
(***************************************************************************)
FailedAfter(lg, before) ==
    LET calls == {i \in 1..Len(lg) : lg[i].op = "call"}
    IN  IF calls = {} THEN before
        ELSE LET i == CHOOSE i \in calls : TRUE
             IN  IF ~lg[i].ok THEN lg[i].n
                 ELSE IF lg[i].n = before THEN 0 ELSE before

Apply(d) ==
    \E e \in {d} :
        /\ Len(e.frames) <= MaxDepth
        /\ last_failed' = FailedAfter(e.log, last_failed)
        /\ context' = e.ctx
        /\ runtime' = e.rt
        /\ midi_send_errors' = e.sendq
        /\ from_watcher' = e.fw
        /\ log' = e.log
        /\ pc' = e.pc
        /\ frames' = e.frames
        /\ ret' = e.ret
        /\ exit_code' = e.code

\* (mutant) main goes on to the selection loop without the emptiness check
StartupUnchecked ==
    /\ pc = "start"
    /\ \E lst \in Listings(disk) :
          /\ Apply([Emit(Cur, Ev("list_scripts", "", 0, TRUE))
                       EXCEPT !.ctx.available_scripts = lst, !.pc = "select"])
          /\ max_idx' = Len(lst) - 1
    /\ UNCHANGED <<disk, from_midi_in, stdin_lines, chosen_index_checked, budget_vars>>

\* main, up to the selection loop: list the folder, bail if it is empty
Startup ==
    /\ pc = "start"
    /\ \E lst \in Listings(disk) :
          IF lst = <<>>
          THEN /\ Apply(Exit(Emit(Cur, Ev("error_message", "empty", 0, TRUE)), 1))
               /\ UNCHANGED max_idx
          ELSE /\ Apply([Emit(Cur, Ev("list_scripts", "", 0, TRUE))
                            EXCEPT !.ctx.available_scripts = lst, !.pc = "select"])
               /\ max_idx' = Len(lst) - 1
    /\ UNCHANGED <<disk, from_midi_in, stdin_lines, chosen_index_checked, budget_vars>>

\* main, one turn of the selection loop and, once a choice is accepted, the
\* initial load
SelectScript(d, line, fs) ==
    LET idx == ParseUsize(Trim(line))
    IN  IF idx = NotANumber \/ idx > max_idx
        THEN IgnoreChoice(d)
        ELSE LET path == d.ctx.available_scripts[idx + 1]
             IN  IF fs[path] = NoFile
                 THEN Exit(d, 1)
                 ELSE compile_run_block_until_valid(
                          [d EXCEPT !.ctx.chosen_index_checked = idx,
                                    !.ctx.chosen_script = fs[path],
                                    !.ctx.chosen_script_path = path], "init")

StartupSelect ==
    /\ pc = "select"
    /\ stdin_lines # <<>>
    /\ LET line == Head(stdin_lines)
           idx == ParseUsize(Trim(line))
       IN  /\ Apply(SelectScript(Emit(Cur, Ev("input", "startup", idx, TRUE)), line, disk))
           /\ chosen_index_checked' = IF idx = NotANumber THEN chosen_index_checked ELSE idx
    /\ stdin_lines' = Tail(stdin_lines)
    /\ UNCHANGED <<disk, from_midi_in, max_idx, budget_vars>>

\* (mutant) after a dispatched message the iteration goes on to the typed
\* lines, passing over the midi.send errors
MidiBranchSkipsErrors(d, m, io_ok, fs, lst) ==
    LET c == call_midi_listen_with(d, m, io_ok)
    IN  IF c.d.pc = "blocked_send" THEN c.d
        ELSE IF c.ok THEN [c.d EXCEPT !.pc = "stdin"]
        ELSE try_debug(ShowError(c.d), "td_midi", fs, lst)

\* main loop: from_midi_in.try_recv()
MidiBranch(d, m, io_ok, fs, lst) ==
    LET c == call_midi_listen_with(d, m, io_ok)
    IN  IF c.d.pc = "blocked_send" THEN c.d
        ELSE IF c.ok THEN [c.d EXCEPT !.pc = "midi"]
        ELSE try_debug(ShowError(c.d), "td_midi", fs, lst)

\* (mutant) the main loop takes the newest queued message first
PollMidiNewest ==
    /\ pc = "midi"
    /\ IF from_midi_in = <<>>
       THEN /\ Apply([Cur EXCEPT !.pc = "senderr"])
            /\ UNCHANGED from_midi_in
       ELSE /\ \E io_ok \in BOOLEAN, lst \in Listings(disk) :
                  Apply(MidiBranch(Cur, from_midi_in[Len(from_midi_in)], io_ok, disk, lst))
            /\ from_midi_in' = SubSeq(from_midi_in, 1, Len(from_midi_in) - 1)
    /\ UNCHANGED <<disk, stdin_lines, chosen_index_checked, max_idx, budget_vars>>

PollMidi ==
    /\ pc = "midi"
    /\ IF from_midi_in = <<>>
       THEN /\ Apply([Cur EXCEPT !.pc = "senderr"])
            /\ UNCHANGED from_midi_in
       ELSE /\ \E io_ok \in BOOLEAN, lst \in Listings(disk) :
                  Apply(MidiBranch(Cur, Head(from_midi_in), io_ok, disk, lst))
            /\ from_midi_in' = Tail(from_midi_in)
    /\ UNCHANGED <<disk, stdin_lines, chosen_index_checked, max_idx, budget_vars>>

\* (mutant) a drained midi.send error blocks the main thread until a fix,
\* as a compile error does
SendErrorBranchBlocking(d, fs, lst) ==
    Block([d EXCEPT !.sendq = Tail(@)], "run", "td_send")

\* main loop: midi_send_errors.try_recv()
SendErrorBranch(d, fs, lst) ==
    try_debug(ShowError([d EXCEPT !.sendq = Tail(@)]), "td_send", fs, lst)

PollSendErrors ==
    /\ pc = "senderr"
    /\ IF midi_send_errors = <<>>
       THEN Apply([Cur EXCEPT !.pc = "stdin"])
       ELSE \E lst \in Listings(disk) : Apply(SendErrorBranch(Cur, disk, lst))
    /\ UNCHANGED <<disk, from_midi_in, stdin_lines, chosen_index_checked, max_idx,
                   budget_vars>>

\* (mutant) the selection keeps the text it holds instead of reading the file
StdinBranchCached(d, line, fs) ==
    LET idx == ParseUsize(Trim(line))
    IN  IF idx = NotANumber
        THEN [IgnoreChoice(d) EXCEPT !.pc = "midi"]
        ELSE LET d1 == [d EXCEPT !.ctx.chosen_index_checked = idx]
             IN  IF idx >= Len(d1.ctx.available_scripts)
                 THEN Exit(d1, 101)
                 ELSE compile_run_block_until_valid(
                          [d1 EXCEPT !.ctx.chosen_script_path =
                                         d1.ctx.available_scripts[idx + 1]], "stdin")

\* main loop: stdin_channel.try_recv(), Ok branch
StdinBranch(d, line, fs) ==
    LET idx == ParseUsize(Trim(line))
    IN  IF idx = NotANumber
        THEN [IgnoreChoice(d) EXCEPT !.pc = "midi"]
        ELSE LET d1 == [d EXCEPT !.ctx.chosen_index_checked = idx]
             IN  IF chosen_index_checked > max_idx
                 THEN [IgnoreChoice(d1) EXCEPT !.pc = "midi"]
                 ELSE IF idx >= Len(d1.ctx.available_scripts)
                 THEN \* index out of bounds: panic
                      Exit(d1, 101)
                 ELSE LET path == d1.ctx.available_scripts[idx + 1]
                          d2 == [d1 EXCEPT !.ctx.chosen_script_path = path]
                      IN  IF fs[path] = NoFile
                          THEN Exit(d2, 1)
                          ELSE compile_run_block_until_valid(
                                   [d2 EXCEPT !.ctx.chosen_script = fs[path]], "stdin")

PollStdin ==
    /\ pc = "stdin"
    /\ IF stdin_lines = <<>>
       THEN /\ \E lst \in Listings(disk) : Apply(try_debug(Cur, "td_idle", disk, lst))
            /\ UNCHANGED stdin_lines
       ELSE /\ Apply(StdinBranch(Emit(Cur, Ev("input", "loop", ParseUsize(Trim(Head(stdin_lines))), TRUE)),
                                 Head(stdin_lines), disk))
            /\ stdin_lines' = Tail(stdin_lines)
    /\ UNCHANGED <<disk, from_midi_in, chosen_index_checked, max_idx, budget_vars>>

\* (mutant) the blocked frame empties the other channels while it waits
RecoveryRecvDraining ==
    /\ pc = "recover"
    /\ from_watcher # <<>>
    /\ Apply(RecoveryStep(Cur, disk))
    /\ from_midi_in' = <<>>
    /\ stdin_lines' = <<>>
    /\ UNCHANGED <<disk, chosen_index_checked, max_idx, budget_vars>>

\* a blocked frame of compile_run_block_until_valid: from_watcher.recv()
RecoveryRecv ==
    /\ pc = "recover"
    /\ from_watcher # <<>>
    /\ Apply(RecoveryStep(Cur, disk))
    /\ UNCHANGED <<disk, from_midi_in, stdin_lines, chosen_index_checked, max_idx,
                   budget_vars>>

MainStep == Startup \/ StartupSelect \/ PollMidi \/ PollSendErrors \/ PollStdin
            \/ RecoveryRecv

(***************************************************************************)
(* The environment: the user, the MIDI port and the scripts folder with    *)
(* the watcher thread, which forwards one message per change of a script.  *)
(***************************************************************************)
Running == pc \notin {"start", "exited"}

Msg(t, p) == [t |-> t, p |-> p]

UserTypes ==
    /\ pc # "exited"
    /\ events < MaxEvents
    /\ \E line \in Lines : stdin_lines' = Append(stdin_lines, line)
    /\ events' = events + 1
    /\ UNCHANGED <<disk, from_watcher, from_midi_in, main_vars, midi_count, raw_event, shared>>

\* (mutant) the callback calls the listener itself, as a handler that held
\* the runtime would
MidiCallbackInvokes ==
    /\ pc \notin {"start", "select", "exited"}
    /\ events < MaxEvents
    /\ from_midi_in' = Append(from_midi_in, midi_count + 1)
    /\ midi_count' = midi_count + 1
    /\ events' = events + 1
    /\ log' = Append(log, Ev("call", runtime.listen, midi_count + 1, TRUE))
    /\ UNCHANGED <<disk, from_watcher, stdin_lines, midi_send_errors, context,
                   chosen_index_checked, max_idx, runtime, pc, frames, ret,
                   exit_code, last_failed, raw_event, shared>>

\* the callback given to create_virtual: copies the bytes and sends them
MidiCallback ==
    /\ pc \notin {"start", "select", "exited"}
    /\ events < MaxEvents
    /\ from_midi_in' = Append(from_midi_in, midi_count + 1)
    /\ midi_count' = midi_count + 1
    /\ events' = events + 1
    /\ UNCHANGED <<disk, from_watcher, stdin_lines, main_vars, raw_event, shared>>

(***************************************************************************)
(* The watcher thread: receives the debounced events of the scripts folder *)
(* and forwards some of them to main.  Besides the scripts 1..3 the folder *)
(* may hold a file with another extension and a file with none.            *)
(***************************************************************************)
TxtPath == 4
BarePath == 5
WatchedPaths == {1, TxtPath, BarePath, NoPath}

\* Path::extension
Extension(path) ==
    IF path \in Files THEN "koto" ELSE IF path = TxtPath THEN "txt" ELSE "none"

\* (mutant) any file with an extension counts as a script
has_extension(path) == Extension(path) # "none"

is_koto_script(path) == Extension(path) = "koto"

DebouncedKinds == {"NoticeWrite", "NoticeRemove", "Create", "Error",
                   "Write", "Remove", "Chmod", "Rescan", "Rename"}

DebouncedEvent(k, p) == [kind |-> k, path |-> p]

NoEvent == DebouncedEvent("none", NoPath)

\* the match on the received event: what the thread sends to main
watcher_thread(event) ==
    CASE event.kind \in {"NoticeWrite", "NoticeRemove", "Create"} ->
             IF is_koto_script(event.path)
             THEN <<Msg(event.kind, event.path)>>
             ELSE <<>>
      [] event.kind = "Error" -> <<Msg("Error", event.path)>>
      [] OTHER -> <<>>

FsChange(newdisk, msg) ==
    /\ Running
    /\ events < MaxEvents
    /\ disk' = newdisk
    /\ from_watcher' = from_watcher \o watcher_thread(DebouncedEvent(msg.t, msg.p))
    /\ events' = events + 1
    /\ UNCHANGED <<from_midi_in, stdin_lines, midi_count,
                   midi_send_errors, context, chosen_index_checked, max_idx, runtime,
                   pc, frames, ret, exit_code, log, last_failed, raw_event,
                   shared>>

\* an editor saves a script: the user breaks it or repairs it
Edits == {"ok", "bad"}

FsWrite ==
    \E f \in Files, c \in Edits :
        /\ disk[f] \notin {NoFile, c}
        /\ FsChange([disk EXCEPT ![f] = c], Msg("NoticeWrite", f))

FsRemove ==
    \E f \in Files :
        /\ disk[f] # NoFile
        /\ FsChange([disk EXCEPT ![f] = NoFile], Msg("NoticeRemove", f))

FsCreate ==
    \E f \in Files :
        /\ disk[f] = NoFile
        /\ FsChange([disk EXCEPT ![f] = "ok"], Msg("Create", f))

\* mv f g: notify reports NoticeRemove(f) and then Rename, which is ignored
FsRename ==
    \E f \in Files, g \in Files :
        /\ disk[f] # NoFile
        /\ disk[g] = NoFile
        /\ g > f
        /\ FsChange([disk EXCEPT ![f] = NoFile, ![g] = disk[f]], Msg("NoticeRemove", f))

WatchFails ==
    FsChange(disk, Msg("Error", NoPath))

EnvStep == UserTypes \/ MidiCallback \/ FsWrite \/ FsRemove \/ FsCreate \/ FsRename
           \/ WatchFails

(***************************************************************************)
(* Specification.                                                          *)
(***************************************************************************)
\* The shared-lock revision once main has reached its loop: main took the
\* guard of the script list and the guard of the runtime and still holds both
SharedAtLoop ==
    [available_scripts_lock |-> "main", runtime_lock |-> "main",
     watcher |-> "recv", received |-> 0, listened |-> 0, writes |-> 0,
     reloads |-> 0]

Disk(a, b, c) == [f \in Files |-> CASE f = 1 -> a [] f = 2 -> b [] OTHER -> c]

InitDisks ==
    { Disk("ok", "bad", NoFile), Disk("lfail", "badsend", NoFile),
      Disk("rt", "storm", NoFile), Disk("ok", NoFile, NoFile),
      Disk("once", NoFile, NoFile), Disk("plain", NoFile, NoFile),
      Disk(NoFile, NoFile, NoFile) }

Init ==
    /\ disk \in InitDisks
    /\ from_watcher = <<>>
    /\ from_midi_in = <<>>
    /\ midi_send_errors = <<>>
    /\ stdin_lines = <<>>
    /\ context = [available_scripts |-> <<>>, chosen_index_checked |-> 0,
                  chosen_script |-> "", chosen_script_path |-> NoPath]
    /\ chosen_index_checked = 0
    /\ max_idx = 0
    /\ runtime = [chunk |-> "none", listen |-> "none"]
    /\ pc = "start"
    /\ frames = <<>>
    /\ ret = "init"
    /\ exit_code = 0
    /\ log = <<>>
    /\ last_failed = 0
    /\ events = 0
    /\ midi_count = 0
    /\ raw_event = NoEvent
    /\ shared = SharedAtLoop

Next == Startup \/ StartupSelect \/ PollMidi \/ PollSendErrors \/ PollStdin
        \/ RecoveryRecv \/ UserTypes \/ MidiCallback \/ FsWrite \/ FsRemove
        \/ FsCreate \/ FsRename \/ WatchFails

Spec == Init /\ [][Next]_vars

(***************************************************************************)
(* The same program observed from the moment the main loop is entered: a   *)
(* script was chosen in the selection loop and its initial load succeeded. *)
(* The environment's events are counted from there.                        *)
(***************************************************************************)
StartupChoices == { <<"0", "\n">>, <<" ", "1", "\n">> }

InitLoopOn(disks) ==
    /\ disk \in disks
    /\ from_watcher = <<>>
    /\ from_midi_in = <<>>
    /\ midi_send_errors = <<>>
    /\ stdin_lines = <<>>
    /\ ret = "init"
    /\ exit_code = 0
    /\ last_failed = 0
    /\ events = 0
    /\ midi_count = 0
    /\ raw_event = NoEvent
    /\ shared = SharedAtLoop
    /\ \E lst \in Listings(disk), line \in StartupChoices :
          LET idx == ParseUsize(Trim(line))
              d0 == [ctx |-> [available_scripts |-> lst, chosen_index_checked |-> 0,
                              chosen_script |-> "", chosen_script_path |-> NoPath],
                     rt |-> [chunk |-> "none", listen |-> "none"],
                     sendq |-> <<>>, fw |-> <<>>, log |-> <<>>, pc |-> "select",
                     frames |-> <<>>, ret |-> "init", code |-> 0]
              path == lst[idx + 1]
              d == compile_run_block_until_valid(
                       [Emit(d0, Ev("input", "startup", idx, TRUE))
                           EXCEPT !.ctx.chosen_index_checked = idx,
                                  !.ctx.chosen_script = disk[path],
                                  !.ctx.chosen_script_path = path], "init")
          IN  /\ idx < Len(lst)
              /\ d.pc = "midi"
              /\ context = d.ctx
              /\ runtime = d.rt
              /\ log = d.log
              /\ pc = d.pc
              /\ frames = d.frames
              /\ chosen_index_checked = idx
              /\ max_idx = Len(lst) - 1

InitLoop == InitLoopOn(InitDisks)

NextLoop == PollMidi \/ PollSendErrors \/ PollStdin \/ RecoveryRecv \/ UserTypes
            \/ MidiCallback \/ FsWrite \/ FsRemove \/ FsCreate \/ FsRename
            \/ WatchFails

SpecLoop == InitLoop /\ [][NextLoop]_vars

(***************************************************************************)
(* The main loop under a MIDI port that keeps delivering: the callback is  *)
(* not limited by the budget of events, only the number of messages that   *)
(* wait in the channel is.  The main thread is a running loop, so its      *)
(* steps are taken whenever they stay possible (weak fairness).  The user  *)
(* types and removes scripts meanwhile.                                    *)
(***************************************************************************)
MaxQueued == 1
MaxPending == 2      \* lines typed and scripts removed meanwhile

MidiStream ==
    /\ pc \notin {"start", "select", "exited"}
    /\ Len(from_midi_in) < MaxQueued
    /\ from_midi_in' = Append(from_midi_in, 1)
    /\ UNCHANGED <<disk, from_watcher, stdin_lines, main_vars, budget_vars>>

MainLoop == PollMidi \/ PollSendErrors \/ PollStdin

StreamUserTypes == events < MaxPending /\ UserTypes

StreamFsRemove == events < MaxPending /\ FsRemove

NextStream == MainLoop \/ RecoveryRecv \/ StreamUserTypes \/ MidiStream
              \/ StreamFsRemove

\* the folder holds a script whose listener sends nothing, which is running,
\* and a script that does not compile
InitStream == InitLoopOn({Disk("quiet", "bad", NoFile)})

SpecStream == InitStream /\ [][NextStream]_vars /\ WF_vars(MainLoop)

(***************************************************************************)
(* Saves of a script seen through the watcher thread's loop.  Each turn of *)
(* the loop creates a watcher, receives ONE event, forwards it, and drops  *)
(* the watcher at the end of the turn; the next turn creates a new one.  A *)
(* write that falls between the drop and the next watch() is reported to   *)
(* no watcher.  raw_event holds the event of the turn until the thread     *)
(* watches again.                                                          *)
(***************************************************************************)
Watching == raw_event = NoEvent

\* a save while a watcher is registered: NoticeWrite is received and matched
WriteWatched ==
    /\ Running
    /\ events < MaxEvents
    /\ Watching
    /\ \E f \in Files, c \in Edits :
          /\ disk[f] \notin {NoFile, c}
          /\ disk' = [disk EXCEPT ![f] = c]
          /\ raw_event' = DebouncedEvent("NoticeWrite", f)
          /\ from_watcher' = from_watcher \o watcher_thread(raw_event')
    /\ events' = events + 1
    /\ UNCHANGED <<from_midi_in, stdin_lines, midi_count, main_vars, shared>>

\* a save while the thread is between two watchers
WriteUnwatched ==
    /\ Running
    /\ events < MaxEvents
    /\ ~Watching
    /\ \E f \in Files, c \in Edits :
          /\ disk[f] \notin {NoFile, c}
          /\ disk' = [disk EXCEPT ![f] = c]
    /\ events' = events + 1
    /\ UNCHANGED <<from_watcher, raw_event, from_midi_in, stdin_lines, midi_count,
                   main_vars, shared>>

\* the next turn of the loop: watcher(..) and watcher.watch(..)
Rewatch ==
    /\ ~Watching
    /\ raw_event' = NoEvent
    /\ UNCHANGED <<disk, from_watcher, from_midi_in, stdin_lines, midi_count,
                   events, main_vars, shared>>

MainThread == MainLoop \/ RecoveryRecv

NextReload == MainThread \/ WriteWatched \/ WriteUnwatched \/ Rewatch

InitReload == InitLoopOn({Disk("quiet", NoFile, NoFile)})

SpecReload == /\ InitReload /\ [][NextReload]_vars
              /\ WF_vars(MainThread) /\ WF_vars(Rewatch)

(***************************************************************************)
(* The watcher thread alone, fed with every kind of debounced event on     *)
(* script files and on other files, while main is in its loop.             *)
(***************************************************************************)
RawEvents == {DebouncedEvent(k, p) : k \in DebouncedKinds, p \in WatchedPaths}

\* one iteration of the thread's loop: receiver.recv() and the match
WatcherThread ==
    /\ Running
    /\ events < MaxEvents
    /\ \E event \in RawEvents :
          /\ raw_event' = event
          /\ from_watcher' = from_watcher \o watcher_thread(event)
    /\ events' = events + 1
    /\ UNCHANGED <<disk, from_midi_in, stdin_lines, midi_count, main_vars, shared>>

NextWatcher == WatcherThread

SpecWatcher == InitLoop /\ [][NextWatcher]_vars

(***************************************************************************)
(* The shared-lock revision (src/src/main.rs).  main locks the script list *)
(* and the runtime before its selection loop and keeps both guards while   *)
(* it loops on read_line; the MIDI callback uses try_lock on the runtime;  *)
(* the watcher thread locks both on a Write of a script.  Of this model's  *)
(* state it uses stdin_lines, context, runtime, pc and exit_code.          *)
(***************************************************************************)
KotoChars == <<"k", "o", "t", "o">>

\* the characters of path.extension()
ExtensionChars(path) ==
    IF path \in Files THEN KotoChars
    ELSE IF path = TxtPath THEN <<"t", "x", "t">> ELSE <<>>

\* format!("{:?}", extension): Debug of an OsStr puts it in double quotes
DebugFormat(chars) == <<"\"">> \o chars \o <<"\"">>

\* "koto" == &format!("{:?}", extension)[..]
WriteIsForScript(path) ==
    /\ Extension(path) # "none"
    /\ KotoChars = DebugFormat(ExtensionChars(path))

\* mutex.try_lock() and mutex.lock() succeed only on a free mutex
Free(holder) == holder = "free"

\* main, one turn of "loop for other choices of scripts": main compiles and
\* runs through the guard it holds; parse()? returns from main
LockMainSelect ==
    /\ pc = "stdin"
    /\ stdin_lines # <<>>
    /\ stdin_lines' = Tail(stdin_lines)
    /\ LET idx == ParseUsize(Trim(Head(stdin_lines)))
       IN  IF idx = NotANumber
           THEN /\ pc' = "exited"
                /\ exit_code' = 1
                /\ UNCHANGED <<context, runtime>>
           ELSE IF idx > Len(context.available_scripts) - 1
           THEN UNCHANGED <<pc, exit_code, context, runtime>>
           ELSE LET src == disk[context.available_scripts[idx + 1]]
                IN  /\ context' = [context EXCEPT !.chosen_script = src]
                    /\ runtime' = [chunk |-> src,
                                   listen |-> IF DefinesListener(src) THEN src
                                              ELSE runtime.listen]
                    /\ UNCHANGED <<pc, exit_code>>
    /\ UNCHANGED <<disk, from_watcher, from_midi_in, midi_send_errors,
                   chosen_index_checked, max_idx, frames, ret, log, last_failed,
                   budget_vars>>

\* the MIDI input callback: try_lock on the runtime, then midi.listen; the
\* error of a failed try_lock is dropped
LockMidiCallback ==
    /\ pc # "exited"
    /\ events < MaxEvents
    /\ events' = events + 1
    /\ shared' = IF Free(shared.runtime_lock)
                 THEN [shared EXCEPT !.received = @ + 1, !.listened = @ + 1]
                 ELSE [shared EXCEPT !.received = @ + 1]
    /\ UNCHANGED <<disk, from_watcher, from_midi_in, stdin_lines, midi_count,
                   raw_event, main_vars>>

\* the script watcher thread: receives an event; on a Write it takes to be of
\* a script it locks the script list, then the runtime, compiles and runs the
\* chosen script, and drops both guards
LockWatcher ==
    /\ pc # "exited"
    /\ IF shared.watcher = "recv"
       THEN /\ events < MaxEvents
            /\ events' = events + 1
            /\ \E kind \in {"Write", "NoticeWrite"}, path \in {1, TxtPath, BarePath} :
                  shared' =
                    [shared EXCEPT
                       !.writes = IF kind = "Write" /\ Extension(path) = "koto"
                                  THEN @ + 1 ELSE @,
                       !.watcher = IF kind = "Write" /\ WriteIsForScript(path)
                                   THEN "lock_scripts" ELSE @]
       ELSE IF shared.watcher = "lock_scripts"
       THEN /\ Free(shared.available_scripts_lock)
            /\ shared' = [shared EXCEPT !.watcher = "lock_runtime"]
            /\ UNCHANGED events
       ELSE /\ Free(shared.runtime_lock)
            /\ shared' = [shared EXCEPT !.watcher = "recv", !.reloads = @ + 1]
            /\ UNCHANGED events
    /\ UNCHANGED <<disk, from_watcher, from_midi_in, stdin_lines, midi_count,
                   raw_event, main_vars>>

NextLock == LockMainSelect \/ LockMidiCallback \/ LockWatcher \/ UserTypes

\* main waits in read_line with one valid script chosen and loaded
InitLock ==
    /\ disk = Disk("ok", "quiet", NoFile)
    /\ from_watcher = <<>>
    /\ from_midi_in = <<>>
    /\ midi_send_errors = <<>>
    /\ stdin_lines = <<>>
    /\ context = [available_scripts |-> <<1, 2>>, chosen_index_checked |-> 0,
                  chosen_script |-> "ok", chosen_script_path |-> 1]
    /\ chosen_index_checked = 0
    /\ max_idx = 1
    /\ runtime = [chunk |-> "ok", listen |-> "ok"]
    /\ pc = "stdin"
    /\ frames = <<>>
    /\ ret = "init"
    /\ exit_code = 0
    /\ log = <<>>
    /\ last_failed = 0
    /\ events = 0
    /\ midi_count = 0
    /\ raw_event = NoEvent
    /\ shared = SharedAtLoop

\* threads that can run do run
SpecLock == /\ InitLock /\ [][NextLock]_vars
            /\ WF_vars(LockMainSelect) /\ WF_vars(LockMidiCallback)
            /\ WF_vars(LockWatcher)

(***************************************************************************)
(* Properties.                                                             *)
(***************************************************************************)
\* the main thread took the step (the environment counts its own)
MainMoved == events' = events

\* the main thread takes the next typed line (start-up loop or main loop)
TakesLine ==
    /\ pc \in {"select", "stdin"}
    /\ stdin_lines # <<>>
    /\ stdin_lines' = Tail(stdin_lines)

\* what the user means by a line, read off the text itself
Denotes(line) ==
    CASE line = <<"0", "\n">> -> 0
      [] line = <<" ", "1", "\n">> -> 1
      [] line = <<"7", "\n">> -> 7
      [] OTHER -> NotANumber

UnparsableLines == { <<"x", "\n">>, <<"-", "1", "\n">>, <<"\n">> }

InRange(i, scripts) == i \in 0..(Len(scripts) - 1)

\* the load was entered with src: the first compile or run that lg records
\* is a compile of src
EntersLoadWith(lg, src) ==
    \E j \in 1..Len(lg) :
        /\ lg[j].op = "compile"
        /\ lg[j].src = src
        /\ \A k \in 1..(j - 1) : lg[k].op \notin {"compile", "run"}

\* C1: handling the selection of an index i inside the catalog (in the
\* start-up loop or in the main loop), the file being readable, makes i the
\* chosen index, catalog[i] the chosen path and the file's content at that
\* moment the chosen script, and that text is what the load compiles first.
C1_SelectionTakesEffect ==
    [][ ( /\ TakesLine
          /\ InRange(Denotes(Head(stdin_lines)), context.available_scripts)
          /\ disk[context.available_scripts[Denotes(Head(stdin_lines)) + 1]] # NoFile )
        => LET i == Denotes(Head(stdin_lines))
               path == context.available_scripts[i + 1]
           IN  /\ context'.chosen_index_checked = i
               /\ context'.chosen_script_path = path
               /\ context'.chosen_script = disk[path]
               /\ context'.available_scripts = context.available_scripts
               /\ EntersLoadWith(log', disk[path]) ]_vars

\* a selection of index 1 was handled in the main loop and the load entered
C1_Witness ==
    /\ Len(log) >= 2
    /\ log[1].op = "input" /\ log[1].src = "loop" /\ log[1].n = 1
    /\ log[2].op = "compile"
    /\ context.chosen_index_checked = 1
    /\ context.chosen_script_path = context.available_scripts[2]

\* C3: a line that is no non-negative integer (non-numeric, negative or
\* empty) changes neither the chosen index, path and script nor the program
\* the runtime holds, in the start-up loop and in the main loop.
C3_UnparsableInputIgnored ==
    [][ (TakesLine /\ Head(stdin_lines) \in UnparsableLines)
        => (context' = context /\ runtime' = runtime /\ pc' # "exited") ]_vars

\* a negative number was typed and taken in the main loop, a script loaded
C3_Witness ==
    /\ log # <<>>
    /\ log[1].op = "input" /\ log[1].src = "loop" /\ log[1].n = NotANumber
    /\ log[Len(log)].op = "ignore_choice"
    /\ runtime.listen # "none"
    /\ pc = "midi"

\* C4: a top-level run is only made of the text compiled last, the compile
\* having succeeded and the text being the chosen script; nothing but a run
\* of the same chunk or a render lies between them, and no run follows a
\* failed compile.
C4_RunOnlyAfterCompile ==
    \A i \in 1..Len(log) :
        /\ log[i].op = "run" =>
              \E j \in 1..(i - 1) :
                  /\ log[j].op = "compile" /\ log[j].ok
                  /\ log[j].src = log[i].src
                  /\ log[i].src = context.chosen_script
                  /\ \A k \in (j + 1)..(i - 1) : log[k].op \in {"run", "render"}
        /\ (log[i].op = "compile" /\ ~log[i].ok) =>
              \A k \in (i + 1)..Len(log) : log[k].op # "run"

\* a compile failed while the runtime held an earlier chunk; nothing was run
C4_Witness ==
    /\ \E i \in 1..Len(log) : log[i].op = "compile" /\ ~log[i].ok
    /\ runtime.chunk \notin {"none", "bad"}
    /\ pc = "recover"

\* C2 (as claimed): in the main loop a number outside the catalog leaves the
\* chosen index, path and script alone, is acknowledged with ignore_choice,
\* and the process keeps running.
C2_OutOfRangeInputIgnored ==
    [][ ( /\ pc = "stdin"
          /\ TakesLine
          /\ Denotes(Head(stdin_lines)) # NotANumber
          /\ ~InRange(Denotes(Head(stdin_lines)), context.available_scripts) )
        => ( /\ context' = context
             /\ \E i \in 1..Len(log') : log'[i].op = "ignore_choice"
             /\ pc' # "exited" ) ]_vars

BrokenByCompile ==
    /\ pc = "recover"
    /\ frames[Len(frames)] = "compile"

DeliverMidi == from_midi_in # <<>> /\ PollMidi /\ from_midi_in' = Tail(from_midi_in)

\* C5 (as claimed): while the source that failed to compile is still broken
\* and a program was loaded before, a queued MIDI message can be delivered
\* to that program's listener.
C5_MidiDeliveredWhileBroken ==
    (BrokenByCompile /\ runtime.listen # "none" /\ from_midi_in # <<>>)
        => ENABLED DeliverMidi

\* C5 (amended): a failed compile leaves the program the runtime holds
\* (chunk and midi.listen) as it was, and so does every step of the recovery
\* in which no text compiles; while the main thread is blocked in recovery
\* no MIDI message is taken from the queue or passed to a listener.
C5_FailedCompileKeepsProgram ==
    [][ /\ (MainMoved /\ \E i \in 1..Len(log') : log'[i].op = "compile" /\ ~log'[i].ok)
            => runtime' = runtime
        /\ (MainMoved /\ pc = "recover" /\ pc' = "recover"
               /\ \A i \in 1..Len(log') : ~(log'[i].op = "compile" /\ log'[i].ok))
            => runtime' = runtime
        /\ (MainMoved /\ pc = "recover")
            => ( /\ from_midi_in' = from_midi_in
                 /\ \A i \in 1..Len(log') : log'[i].op # "call" ) ]_vars

\* blocked on a compile error with an earlier listener loaded and a MIDI
\* message waiting
C5_Witness ==
    /\ BrokenByCompile
    /\ \E i \in 1..Len(log) : log[i].op = "compile" /\ ~log[i].ok
    /\ runtime.listen # "none"
    /\ from_midi_in # <<>>

\* texts that compile and whose top level runs
Runnable == {"ok", "lfail", "badsend", "storm"}

\* C6: blocked on a compile error, the next Modified event of the chosen
\* script, its file now holding a valid program, makes exactly one compile,
\* of the new text, which succeeds and is followed by its successful run;
\* the load returns to the main loop; and the main thread never compiles
\* without having taken a watch event or an input line.
C6_FixEndsRecovery ==
    [][ /\ ( /\ BrokenByCompile
             /\ from_watcher # <<>>
             /\ from_watcher' = Tail(from_watcher)
             /\ Head(from_watcher) = Msg("NoticeWrite", context.chosen_script_path)
             /\ disk[context.chosen_script_path] \in Runnable )
           => LET src == disk[context.chosen_script_path]
              IN  /\ Cardinality({i \in 1..Len(log') : log'[i].op = "compile"}) = 1
                  /\ \E i \in 1..(Len(log') - 1) :
                        /\ log'[i] = Ev("compile", src, 0, TRUE)
                        /\ log'[i + 1] = Ev("run", src, 0, TRUE)
                  /\ \A i \in 1..Len(log') : log'[i].op \in {"compile", "run"} => log'[i].ok
                  /\ pc' = "midi"
                  /\ frames' = <<>>
                  /\ context'.chosen_script = src
                  /\ runtime' = [chunk |-> src, listen |-> src]
        /\ (MainMoved /\ \E i \in 1..Len(log') : log'[i].op = "compile")
           => ( \/ (from_watcher # <<>> /\ from_watcher' = Tail(from_watcher))
                \/ (stdin_lines # <<>> /\ stdin_lines' = Tail(stdin_lines)) ) ]_vars

\* a frame blocked on a compile error took a NoticeWrite, compiled and ran
\* the text, and the main loop goes on
C6_Witness ==
    /\ Len(log) >= 3
    /\ log[1].op = "recv"
    /\ log[1].args[1] = "NoticeWrite"
    /\ log[1].args[Len(log[1].args)] = "compile"
    /\ log[2].op = "compile" /\ log[2].ok
    /\ log[3].op = "run" /\ log[3].ok
    /\ pc = "midi"

\* C7 (as claimed): after a listener call failed for a message, the next
\* message passed to a listener is that same message.
C7_FailedMessageReplayedFirst ==
    [][ MainMoved =>
          \A i \in 1..Len(log') :
              log'[i].op = "call" => (last_failed = 0 \/ log'[i].n = last_failed) ]_vars

ValidSendArgs(args) ==
    /\ Len(args) = 1
    /\ args[1].t = "list"
    /\ \A k \in 1..Len(args[1].data) :
          args[1].data[k].t = "i64" /\ args[1].data[k].v \in 0..255

\* C8 (as claimed): a midi.send call whose argument is not one list of
\* integers in 0..=255 never reaches the transport and always enqueues a
\* protocol error.
C8_InvalidSendReported ==
    \A i \in 1..Len(log) :
        (log[i].op = "midi.send" /\ ~ValidSendArgs(log[i].args))
            => ( /\ i < Len(log)
                 /\ log[i + 1].op = "send_error"
                 /\ log[i + 1].src = "wrong_argument" )

\* try_debug takes a NoticeRemove from the watcher channel
HandlesRemove ==
    /\ pc \in {"midi", "senderr", "stdin"}
    /\ from_watcher # <<>>
    /\ Head(from_watcher).t = "NoticeRemove"
    /\ from_watcher' = Tail(from_watcher)

CatalogPaths == {context.available_scripts[i] : i \in 1..Len(context.available_scripts)}

\* C9: when a Removed event is handled, the chosen script's file being gone,
\* some script remaining and the folder not holding exactly one path the
\* catalog does not know (which is what a rename looks like), the catalog
\* is the new listing, the chosen index is 0, the chosen path the first
\* entry, the chosen script that file's content, which the load compiles,
\* and the process does not exit.
C9_RemovedActiveFallsBack ==
    [][ ( /\ HandlesRemove
          /\ disk[context.chosen_script_path] = NoFile
          /\ Present(disk) # {}
          /\ Cardinality(Present(disk) \ CatalogPaths) # 1 )
        => ( /\ context'.available_scripts \in Listings(disk)
             /\ context'.chosen_index_checked = 0
             /\ context'.chosen_script_path = context'.available_scripts[1]
             /\ context'.chosen_script = disk[context'.available_scripts[1]]
             /\ EntersLoadWith(log', disk[context'.available_scripts[1]])
             /\ pc' \in {"midi", "recover"} ) ]_vars

\* the fallback was taken for a removed second script and the first entry
\* of the new catalog is loaded
C9_Witness ==
    /\ \E i \in 1..Len(log) : log[i].op = "branch" /\ log[i].src = "fallback"
    /\ \E i \in 1..Len(log) : log[i].op = "try_recv" /\ log[i].src = "NoticeRemove"
                                /\ log[i].n # context.chosen_script_path
    /\ context.chosen_index_checked = 0
    /\ context.available_scripts # <<>>
    /\ context.chosen_script_path = context.available_scripts[1]
    /\ runtime.chunk = context.chosen_script
    /\ pc = "midi"

\* C10 (as claimed): when the Removed event of the last script is handled,
\* the process shows a message and exits with a non-zero status.
C10_LastScriptRemovedExits ==
    [][ (HandlesRemove /\ Present(disk) = {})
        => ( /\ pc' = "exited"
             /\ exit_code' # 0
             /\ \E i \in 1..Len(log') : log'[i].op = "error_message" ) ]_vars

\* the main loop's try_debug takes a message of the watcher
TakesWatchInLoop ==
    /\ pc \in {"midi", "senderr", "stdin"}
    /\ from_watcher # <<>>
    /\ from_watcher' = Tail(from_watcher)

\* C11 (as claimed): when the main loop takes a watch Error, the error is
\* reported and the process exits; the loop does not go on polling.
C11_WatchErrorFatal ==
    [][ (TakesWatchInLoop /\ Head(from_watcher).t = "Error")
        => ( /\ pc' = "exited"
             /\ exit_code' # 0
             /\ \E i \in 1..Len(log') : log'[i].op = "error_message" ) ]_vars

\* C12 (as claimed): while the process runs and the catalog is not empty,
\* the chosen index is a position of the catalog.
C12_IndexInCatalog ==
    (pc # "exited" /\ context.available_scripts # <<>>)
        => InRange(context.chosen_index_checked, context.available_scripts)

LoopPositions == {"midi", "senderr", "stdin"}

\* C13 (as claimed): when a blocked load hands control back to the main
\* loop, the process still running, the step compiled the chosen script
\* successfully and ran it successfully, and no later compile failed.
C13_RecoveryExitOnlyByFix ==
    [][ (MainMoved /\ pc = "recover" /\ pc' \in LoopPositions)
        => LET src == context'.chosen_script
           IN  /\ runtime'.chunk = src
               /\ \E i \in 1..(Len(log') - 1) :
                     /\ log'[i] = Ev("compile", src, 0, TRUE)
                     /\ log'[i + 1] = Ev("run", src, 0, TRUE)
                     /\ \A k \in (i + 1)..Len(log') : log'[k].op # "compile" ]_vars

ScriptErrorIn(lg) ==
    \E i \in 1..Len(lg) : lg[i].op \in {"compile", "run", "call"} /\ ~lg[i].ok

\* C14 (as claimed): a step of the main thread in which a compile, a
\* top-level run or a listener call fails does not end the process.
C14_ScriptErrorsNeverExit ==
    [][ (MainMoved /\ ScriptErrorIn(log')) => pc' # "exited" ]_vars

Appended(q, qn) == Len(qn) = Len(q) + 1 /\ SubSeq(qn, 1, Len(q)) = q
TookAtMostOne(q, qn) == qn = q \/ (q # <<>> /\ qn = Tail(q))

\* C15: a step of the MIDI callback, of the stdin thread or of the watcher
\* thread leaves the context, the runtime and everything else the main
\* thread owns as they are, calls nothing in the runtime, and appends one
\* message to its own channel only; the MIDI callback appends the message it
\* received.  Messages are only taken off the channels by the main thread.
C15_OnlyMainTouchesSession ==
    [][ /\ ~MainMoved =>
            /\ UNCHANGED <<context, runtime, log, pc, frames, ret, exit_code,
                           midi_send_errors, chosen_index_checked, max_idx>>
            /\ \/ /\ from_midi_in' = Append(from_midi_in, midi_count')
                  /\ midi_count' = midi_count + 1
                  /\ UNCHANGED <<from_watcher, stdin_lines, disk>>
               \/ /\ Appended(from_watcher, from_watcher')
                  /\ UNCHANGED <<from_midi_in, stdin_lines, midi_count>>
               \/ /\ Appended(stdin_lines, stdin_lines')
                  /\ UNCHANGED <<from_midi_in, from_watcher, midi_count, disk>>
        /\ MainMoved =>
            /\ TookAtMostOne(from_midi_in, from_midi_in')
            /\ TookAtMostOne(from_watcher, from_watcher')
            /\ TookAtMostOne(stdin_lines, stdin_lines')
            /\ disk' = disk ]_vars

\* a MIDI message and a typed line wait in their channels, a listener is
\* loaded and the main thread's last step called no listener
C15_Witness ==
    /\ from_midi_in # <<>>
    /\ stdin_lines # <<>>
    /\ runtime.listen # "none"
    /\ pc = "midi"
    /\ \A i \in 1..Len(log) : log[i].op # "call"

\* C16: while the main thread is blocked in a load it takes nothing from
\* the MIDI channel or from the typed lines, and what arrives meanwhile is
\* appended behind what waits; so when the load returns both channels hold
\* every arrival in order.  In the main loop each poll of a non-empty
\* channel takes its oldest message and dispatches that message: the MIDI
\* message to the listener lookup, the line to the selection.
C16_QueuedAcrossRecovery ==
    [][ /\ (MainMoved /\ pc = "recover")
            => (from_midi_in' = from_midi_in /\ stdin_lines' = stdin_lines)
        /\ (~MainMoved /\ pc = "recover")
            => ( /\ from_midi_in' = from_midi_in \/ Appended(from_midi_in, from_midi_in')
                 /\ stdin_lines' = stdin_lines \/ Appended(stdin_lines, stdin_lines') )
        /\ (MainMoved /\ pc = "midi" /\ from_midi_in # <<>>)
            => ( /\ from_midi_in' = Tail(from_midi_in)
                 /\ log' # <<>>
                 /\ log'[1].op \in {"call", "lookup"}
                 /\ log'[1].n = Head(from_midi_in) )
        /\ (MainMoved /\ pc = "stdin" /\ stdin_lines # <<>>)
            => ( /\ stdin_lines' = Tail(stdin_lines)
                 /\ log' # <<>>
                 /\ log'[1] = Ev("input", "loop", Denotes(Head(stdin_lines)), TRUE) ) ]_vars

\* a blocked load has just returned to the main loop on a fix, and a MIDI
\* message that arrived while it was blocked is still in the channel
C16_Witness ==
    /\ pc = "midi"
    /\ log # <<>>
    /\ log[1].op = "recv"
    /\ \E i \in 1..Len(log) : log[i].op = "compile" /\ log[i].ok
    /\ from_midi_in # <<>>

\* C17: at start-up with no script in the folder, the first step of main
\* reports the empty folder and ends the process with a non-zero status;
\* no typed line is read, the context and the runtime stay as constructed,
\* the scripts are not listed for selection, and after the exit nothing is
\* received or loaded (the MIDI ports are never opened).
C17_EmptyFolderExitsAtStartup ==
    [][ /\ (MainMoved /\ pc = "start" /\ Present(disk) = {})
            => ( /\ pc' = "exited"
                 /\ exit_code' # 0
                 /\ \E i \in 1..Len(log') : log'[i] = Ev("error_message", "empty", 0, TRUE)
                 /\ \A i \in 1..Len(log') :
                       log'[i].op \notin {"input", "list_scripts", "compile", "run"}
                 /\ stdin_lines' = stdin_lines
                 /\ context' = context
                 /\ runtime' = runtime )
        /\ (pc = "exited" /\ context.available_scripts = <<>> /\ runtime.chunk = "none")
            => ( /\ pc' = "exited"
                 /\ stdin_lines' = stdin_lines
                 /\ from_midi_in' = <<>>
                 /\ context' = context
                 /\ runtime' = runtime ) ]_vars

\* the process ended at start-up on an empty folder while a typed line was
\* waiting, unread
C17_Witness ==
    /\ pc = "exited"
    /\ exit_code = 1
    /\ Present(disk) = {}
    /\ context.available_scripts = <<>>
    /\ stdin_lines # <<>>
    /\ \E i \in 1..Len(log) : log[i] = Ev("error_message", "empty", 0, TRUE)

\* C18 (as claimed): a blocked load that receives the Modified event of a
\* script other than the chosen one keeps the chosen path and script and
\* compiles nothing.
C18_OtherScriptEditIgnored ==
    [][ ( /\ MainMoved
          /\ pc = "recover"
          /\ from_watcher # <<>>
          /\ from_watcher' = Tail(from_watcher)
          /\ Head(from_watcher).t = "NoticeWrite"
          /\ Head(from_watcher).p # context.chosen_script_path )
        => ( /\ context'.chosen_script_path = context.chosen_script_path
             /\ context'.chosen_script = context.chosen_script
             /\ \A i \in 1..Len(log') : log'[i].op # "compile" ) ]_vars

\* C19 (as claimed): a blocked load that receives a watch Error stops
\* waiting and the process exits with a non-zero status.
C19_WatchErrorEndsRecovery ==
    [][ ( /\ MainMoved
          /\ pc = "recover"
          /\ from_watcher # <<>>
          /\ from_watcher' = Tail(from_watcher)
          /\ Head(from_watcher).t = "Error" )
        => (pc' = "exited" /\ exit_code' # 0) ]_vars

\* C20 (as claimed): whenever the main thread takes a Created or Removed
\* event, in the main loop or blocked in a load, the catalog becomes a fresh
\* listing of the folder.
C20_CatalogRebuiltOnEveryEvent ==
    [][ ( /\ MainMoved
          /\ from_watcher # <<>>
          /\ from_watcher' = Tail(from_watcher)
          /\ Head(from_watcher).t \in {"Create", "NoticeRemove"} )
        => context'.available_scripts \in Listings(disk) ]_vars

IsPrefix(q, qn) == Len(qn) >= Len(q) /\ SubSeq(qn, 1, Len(q)) = q

ListenerFailedIn(lg) ==
    \E i \in 1..Len(lg) : lg[i].op \in {"call", "lookup"} /\ ~lg[i].ok

\* C21 (as claimed): in the main loop a watch event is only taken by the
\* poll that comes after the poll of the typed lines.
C21_WatchPolledLast ==
    [][ (MainMoved /\ pc \in LoopPositions /\ from_watcher' # from_watcher)
        => pc = "stdin" ]_vars

\* C21 (amended): an iteration polls the MIDI channel, then the midi.send
\* errors, then the typed lines, each poll taking at most one message of
\* its own channel and none of the other two; a dispatched MIDI message or
\* a repaired error ends the iteration.  At most one watch event is taken
\* per poll, and only by the poll of the typed lines when no line waits, by
\* the MIDI poll after a failed listener call, or by the poll of the
\* midi.send errors after it took an error.
C21_PollOrder ==
    [][ MainMoved =>
          /\ pc \in LoopPositions => TookAtMostOne(from_watcher, from_watcher')
          /\ pc = "midi" =>
                /\ TookAtMostOne(from_midi_in, from_midi_in')
                /\ IsPrefix(midi_send_errors, midi_send_errors')
                /\ stdin_lines' = stdin_lines
                /\ pc' \in {"midi", "senderr", "recover", "blocked_send"}
                /\ from_watcher' # from_watcher
                      => (from_midi_in' # from_midi_in /\ ListenerFailedIn(log'))
          /\ pc = "senderr" =>
                /\ from_midi_in' = from_midi_in
                /\ TookAtMostOne(midi_send_errors, midi_send_errors')
                /\ stdin_lines' = stdin_lines
                /\ pc' \in {"stdin", "midi", "recover"}
                /\ from_watcher' # from_watcher => midi_send_errors' # midi_send_errors
          /\ pc = "stdin" =>
                /\ from_midi_in' = from_midi_in
                /\ midi_send_errors' = midi_send_errors
                /\ TookAtMostOne(stdin_lines, stdin_lines')
                /\ pc' \in {"midi", "recover", "exited"}
                /\ from_watcher' # from_watcher => stdin_lines = <<>> ]_vars

\* the MIDI poll took a message, the listener call failed and the same poll
\* took a watch event, before the midi.send errors and the typed lines
C21_Witness ==
    /\ pc \in {"midi", "senderr"}
    /\ \E i \in 1..Len(log) : log[i].op = "call" /\ ~log[i].ok
    /\ \E i \in 1..Len(log) : log[i].op = "try_recv"

\* the main loop's try_debug takes the Modified event of the chosen script
ReloadsChosen ==
    /\ TakesWatchInLoop
    /\ Head(from_watcher) = Msg("NoticeWrite", context.chosen_script_path)

\* C22: when the main loop handles the Modified event of the chosen script,
\* the chosen script becomes the file's content at that moment and the load
\* compiles that text first; index, path and catalog stay.  If the file
\* cannot be read nothing is compiled, so the text held before is never
\* compiled in its place.
C22_ReloadReadsDisk ==
    [][ /\ (ReloadsChosen /\ disk[context.chosen_script_path] # NoFile)
            => ( /\ context'.chosen_script = disk[context.chosen_script_path]
                 /\ context'.chosen_script_path = context.chosen_script_path
                 /\ context'.chosen_index_checked = context.chosen_index_checked
                 /\ context'.available_scripts = context.available_scripts
                 /\ EntersLoadWith(log', disk[context.chosen_script_path]) )
        /\ (ReloadsChosen /\ disk[context.chosen_script_path] = NoFile)
            => \A i \in 1..Len(log') : log'[i].op \notin {"compile", "run"} ]_vars

\* the chosen script was edited while it ran, the main loop took the event
\* and compiled the new text, which differs from the one loaded before
C22_Witness ==
    /\ Len(log) >= 2
    /\ log[1] = Ev("try_recv", "NoticeWrite", context.chosen_script_path, TRUE)
    /\ log[2].op = "compile"
    /\ log[2].src = disk[context.chosen_script_path]
    /\ log[2].src = "bad"
    /\ runtime.chunk = "ok"
    /\ pc = "recover"

\* the MIDI poll takes a message while the prelude holds no midi.listen
DispatchesWithoutListener ==
    /\ MainMoved
    /\ pc = "midi"
    /\ from_midi_in # <<>>
    /\ runtime.listen = "none"

\* C23 (as claimed): a message dispatched while no listener is defined
\* takes no watch event and does not block the main thread.
C23_MissingListenerNoRetry ==
    [][ DispatchesWithoutListener
        => (from_watcher' = from_watcher /\ pc' # "recover") ]_vars

\* C23 (amended): a message dispatched while no listener is defined is
\* taken, calls nothing, and is reported once (the failed lookup, then
\* show_error); the main loop then polls the watcher once as after a
\* listener error: with no watch event waiting it goes on to the midi.send
\* errors with context and runtime unchanged, otherwise it takes one watch
\* event, and it blocks only if that event starts a load that fails.
C23_MissingListenerReported ==
    [][ DispatchesWithoutListener
        => ( /\ from_midi_in' = Tail(from_midi_in)
             /\ Len(log') >= 2
             /\ log'[1] = Ev("lookup", "none", Head(from_midi_in), FALSE)
             /\ log'[2].op = "show_error"
             /\ \A i \in 1..Len(log') : log'[i].op # "call"
             /\ TookAtMostOne(from_watcher, from_watcher')
             /\ from_watcher = <<>>
                   => (pc' = "senderr" /\ context' = context /\ runtime' = runtime
                       /\ Len(log') = 2)
             /\ pc' = "recover"
                   => (from_watcher' # from_watcher /\ ScriptErrorIn(log')) ) ]_vars

\* a message was dispatched without a listener and the same poll took a
\* watch event
C23_Witness ==
    /\ Len(log) >= 3
    /\ log[1].op = "lookup"
    /\ log[2].op = "show_error"
    /\ log[3].op = "try_recv"
    /\ runtime.chunk = "plain"

\* the main loop takes a midi.send error from its channel
DrainsSendError ==
    /\ MainMoved
    /\ pc = "senderr"
    /\ midi_send_errors # <<>>

C25_SendNeverBlocks == pc # "blocked_send"

\* what the user sees: show_error, the start-up message, or the error that
\* main returns, which the process prints as it exits
Reports == {"show_error", "error_message", "exit"}

ScriptErrorEvent(e) == e.op \in {"compile", "run", "call", "lookup"} /\ ~e.ok

StructuralErrorEvent(e) ==
    \/ e.op = "bail"
    \/ (e.op = "try_recv" /\ e.src = "Error")
    \/ (e.op = "recv" /\ e.args[1] = "Error")

ReportedIn(lg, i) == \E k \in (i + 1)..Len(lg) : lg[k].op \in Reports

\* C26 (as claimed): within the step in which a compile error, a top-level
\* runtime error, a listener error, a watch failure or an empty catalog
\* occurs, a report to the user follows it.
C26_EveryErrorShown ==
    [][ MainMoved =>
          \A i \in 1..Len(log') :
              (ScriptErrorEvent(log'[i]) \/ StructuralErrorEvent(log'[i]))
                  => ReportedIn(log', i) ]_vars

\* side property: the same for the script errors alone
ScriptErrorsShown ==
    [][ MainMoved =>
          \A i \in 1..Len(log') : ScriptErrorEvent(log'[i]) => ReportedIn(log', i) ]_vars

FellBack(lg) == \E i \in 1..Len(lg) : lg[i].op = "branch" /\ lg[i].src = "fallback"

\* C27 (as claimed): when a Removed event is handled, the chosen path no
\* longer reads and the rebuilt catalog holds a path the previous catalog did
\* not, the chosen path becomes such a new path, the chosen text its contents,
\* the chosen index its position, and there is no fallback to index 0.
C27_NewPathMeansRename ==
    [][ ( /\ HandlesRemove
          /\ disk[context.chosen_script_path] = NoFile
          /\ NewPaths(context'.available_scripts, context.available_scripts) # <<>> )
        => ( /\ ~FellBack(log')
             /\ InSeq(context'.chosen_script_path,
                      NewPaths(context'.available_scripts, context.available_scripts))
             /\ context'.chosen_script = disk[context'.chosen_script_path]
             /\ context'.available_scripts[context'.chosen_index_checked + 1]
                    = context'.chosen_script_path ) ]_vars

\* side property: the same when exactly one path is new
RenameWithOneNewPath ==
    [][ ( /\ HandlesRemove
          /\ disk[context.chosen_script_path] = NoFile
          /\ Len(NewPaths(context'.available_scripts, context.available_scripts)) = 1 )
        => ( /\ ~FellBack(log')
             /\ InSeq(context'.chosen_script_path,
                      NewPaths(context'.available_scripts, context.available_scripts))
             /\ context'.chosen_script = disk[context'.chosen_script_path]
             /\ context'.available_scripts[context'.chosen_index_checked + 1]
                    = context'.chosen_script_path ) ]_vars

Dispatched(lg) == {lg[i].n : i \in {k \in 1..Len(lg) : lg[k].op = "call"}}

\* C28: MIDI messages reach the listener in the order in which the callback
\* enqueued them (identifiers grow with arrival): the message passed to the
\* listener is the oldest one queued, so nothing that arrived before it is
\* left to be dispatched after it, whatever errors, reloads and recoveries
\* lie between two dispatches.
C28_DispatchInArrivalOrder ==
    [][ MainMoved => \A n \in Dispatched(log') :
            /\ from_midi_in # <<>>
            /\ n = Head(from_midi_in)
            /\ n <= midi_count
            /\ \A k \in 1..Len(from_midi_in') : from_midi_in'[k] > n ]_vars

\* a second message has just been passed to the listener, after the call
\* with the first one failed
C28_Witness ==
    /\ pc \in LoopPositions
    /\ \E n \in Dispatched(log) : n >= 2 /\ last_failed >= 1

ForwardedKinds == {"NoticeWrite", "NoticeRemove", "Create"}

\* C29: the watcher thread forwards a file event only when its path has the
\* script extension, as the one message of the same kind (modified, removed or
\* created) and path; an event on any other file is dropped; a watcher error
\* is forwarded as an Error message whatever its path.
C29_WatcherForwardsScriptsOnly ==
    [][ LET e == raw_event' IN
        /\ (e.kind # "Error" /\ Extension(e.path) # "koto")
              => from_watcher' = from_watcher
        /\ (e.kind \in ForwardedKinds /\ Extension(e.path) = "koto")
              => from_watcher' = Append(from_watcher, Msg(e.kind, e.path))
        /\ (e.kind = "Error")
              => from_watcher' = Append(from_watcher, Msg("Error", e.path))
        /\ (from_watcher' # from_watcher)
              => /\ Len(from_watcher') = Len(from_watcher) + 1
                 /\ e.kind \in ForwardedKinds \cup {"Error"} ]_vars

\* the thread has just dropped a change of a file that is not a script, after
\* forwarding a change of a script and an error that names the other file
C29_Witness ==
    /\ raw_event = DebouncedEvent("NoticeWrite", TxtPath)
    /\ from_watcher = <<Msg("NoticeWrite", 1), Msg("Error", TxtPath)>>

\* a valid choice is the next line main would read
ValidChoiceQueued ==
    /\ stdin_lines # <<>>
    /\ InRange(Denotes(Head(stdin_lines)), context.available_scripts)

TakesQueuedLine == MainStep /\ stdin_lines' = Tail(stdin_lines)

\* C30 (as claimed): where main waits with an error of the chosen script on
\* the screen (polling stdin after a listener error, or blocked after a
\* compile or top-level runtime error) and a valid in-range index has been
\* entered, main can take that line.
C30_ChoiceTakenWhileErrorShown ==
    ( /\ \/ pc = "recover"
         \/ (pc = "stdin" /\ last_failed # 0)
      /\ ValidChoiceQueued )
        => ENABLED TakesQueuedLine

\* side property: the same after a listener error alone
ChoiceTakenAfterListenerError ==
    (pc = "stdin" /\ last_failed # 0 /\ ValidChoiceQueued) => ENABLED TakesQueuedLine

\* C31 (as claimed): whenever main is in its loop and the catalog is not
\* empty, the catalog entry at the chosen index is the chosen path.
C31_IndexDenotesChosenPath ==
    (pc \in LoopPositions /\ context.available_scripts # <<>>)
        => /\ context.chosen_index_checked < Len(context.available_scripts)
           /\ context.available_scripts[context.chosen_index_checked + 1]
                  = context.chosen_script_path

\* C32 (as claimed): in the main loop, the Modified event of a script other
\* than the chosen one leaves the chosen index, path and script and the loaded
\* program unchanged and compiles nothing.
C32_OtherScriptEditNoEffect ==
    [][ ( /\ MainMoved
          /\ pc \in LoopPositions
          /\ from_watcher # <<>>
          /\ from_watcher' = Tail(from_watcher)
          /\ Head(from_watcher).t = "NoticeWrite"
          /\ Head(from_watcher).p # context.chosen_script_path )
        => ( /\ context' = context
             /\ runtime' = runtime
             /\ \A i \in 1..Len(log') : log'[i].op # "compile" ) ]_vars

\* C33 (as claimed): within a step of the main thread, a top-level run that
\* succeeded is not followed by another run unless a compile lies between
\* them: every load runs the unit it compiled exactly once.
C33_RunsOncePerLoad ==
    [][ MainMoved =>
          \A i, j \in 1..Len(log') :
              ( /\ i < j
                /\ log'[i].op = "run" /\ log'[i].ok
                /\ log'[j].op = "run" )
                  => \E k \in (i + 1)..(j - 1) : log'[k].op = "compile" ]_vars

\* side property: the same for every load but the initial one
RunsOnceAfterStartup ==
    [][ (MainMoved /\ pc # "select" /\ ret # "init") =>
          \A i, j \in 1..Len(log') :
              ( /\ i < j
                /\ log'[i].op = "run" /\ log'[i].ok
                /\ log'[j].op = "run" )
                  => \E k \in (i + 1)..(j - 1) : log'[k].op = "compile" ]_vars

InLoop == pc \in LoopPositions

\* C34 (as claimed): while main is in its loop, a typed line or a watcher
\* message that waits in its channel is eventually taken, even though MIDI
\* messages keep arriving and are dispatched successfully.
C34_QueuedInputEventuallyTaken ==
    /\ (InLoop /\ stdin_lines # <<>>) ~> (~InLoop \/ stdin_lines = <<>>)
    /\ (InLoop /\ from_watcher # <<>>) ~> (~InLoop \/ from_watcher = <<>>)

\* side property: the same once MIDI messages stop arriving
TakenOnceMidiStops ==
    (<>[](from_midi_in = <<>>)) => C34_QueuedInputEventuallyTaken

AfterStartup == pc \in LoopPositions \/ (pc = "recover" /\ ret # "init")

\* C35 (as claimed): after start-up a step of the main thread ends the
\* process only for a watch failure or an empty folder: a step that takes
\* no watcher Error, with a script left in the folder and, if it takes a typed
\* line, a line that denotes an index inside the catalog, does not exit.
C35_ExitsOnlyWhenStructural ==
    [][ ( /\ MainMoved
          /\ AfterStartup
          /\ Present(disk) # {}
          /\ TakesLine => InRange(Denotes(Head(stdin_lines)), context.available_scripts)
          /\ \A i \in 1..Len(log') : ~StructuralErrorEvent(log'[i]) )
        => pc' # "exited" ]_vars

ChosenFile == disk[context.chosen_script_path]

\* C36 (as claimed): once the saves of the chosen script have stopped, if
\* its final content compiles and runs, the loaded program ends up being the
\* one compiled from that content.
C36_FinalContentLoaded ==
    <>[]( (ChosenFile # NoFile /\ CompileOk(ChosenFile) /\ RunOk(ChosenFile))
             => runtime.chunk = ChosenFile )

\* C37 (as claimed): in the shared-lock revision, once a MIDI message has
\* arrived some callback gets the runtime and calls midi.listen, and once a
\* Write of a script has been received the watcher thread gets both locks and
\* reloads the chosen script (unless the process has ended).
C37_LocksEventuallyGranted ==
    /\ (shared.received > 0) ~> (shared.listened > 0 \/ pc = "exited")
    /\ (shared.writes > 0) ~> (shared.reloads > 0 \/ pc = "exited")

\* side property: no callback ever calls the listener and the watcher thread
\* never reloads
NeverListensNorReloads == shared.listened = 0 /\ shared.reloads = 0

====
